---- MODULE Spec2Model ----
(***************************************************************************)
(* Model of scripts/process_template.py: load_dfs (CSV rows -> seven       *)
(* aggregated tables), df_to_dict (table -> nested mapping) and main (the  *)
(* pipeline and its output file).                                          *)
(*                                                                         *)
(* A pandas frame or series is a function from label tuples to integer     *)
(* cells: a frame with columns is keyed by the row key followed by the     *)
(* column label, which is also what DataFrame.stack() produces.  The seven *)
(* returned tables keep pandas' shape: an ordered sequence of rows, each   *)
(* with its index key and its cells by column label.                       *)
(***************************************************************************)
EXTENDS Integers, Sequences, FiniteSets, TLC

VARIABLES pc, emis, jobs, preserve_zeros, template, dfs, ctx, outfile,
          df, drop_full_zeros, result, once, twice

vars == <<pc, emis, jobs, preserve_zeros, template, dfs, ctx, outfile,
          df, drop_full_zeros, result, once, twice>>

(***************************************************************************)
(* Bounds                                                                  *)
(***************************************************************************)
MaxExtra == 2
MaxRows == 2
MaxCell == 0

(***************************************************************************)
(* Generic helpers                                                         *)
(***************************************************************************)
Range(s) == {s[i] : i \in DOMAIN s}

RECURSIVE SumFn(_, _)
SumFn(f, S) ==
    IF S = {} THEN 0
    ELSE LET x == CHOOSE y \in S : TRUE IN f[x] + SumFn(f, S \ {x})

SeqsUpTo(S, n) == UNION {[1..k -> S] : k \in 0..n}

NoTable == [nlevels |-> 0, rows |-> <<>>, cols |-> {}]

(***************************************************************************)
(* Configuration of load_dfs                                               *)
(***************************************************************************)
rename_dict ==
    [l \in {"KE", "RW", "UG", "UK", "ZM"} |->
        CASE l = "KE" -> "Kenya"
          [] l = "RW" -> "Rwanda"
          [] l = "UG" -> "Uganda"
          [] l = "UK" -> "United Kingdom"
          [] l = "ZM" -> "Zambia"]

countries == <<"KE", "RW", "UG", "UK", "ZM">>

\* variant: UK is not excluded from the jobs lookup
countries_alt_with_uk == countries

countries_alt == SelectSeq(countries, LAMBDA n : n # "UK")

\* Material columns of the emissions CSV, in file order.
Mats == {"Cement", "Steel"}

\* Python's string order on the labels the model uses (groupby and unstack
\* sort their keys).
LabelOrder ==
    <<"Base", "Capacity", "Cement", "DE", "Direct", "Indirect", "KE", "Kenya", "RW",
      "Rwanda", "Solar", "Steel", "UG", "UK", "Uganda", "United Kingdom",
      "Wind", "ZM", "Zambia">>

Rank(l) == CHOOSE i \in 1..Len(LabelOrder) : LabelOrder[i] = l

KeyLess(a, b) ==
    \E i \in 1..Len(a) :
        /\ \A j \in 1..(i - 1) : a[j] = b[j]
        /\ Rank(a[i]) < Rank(b[i])

RECURSIVE SortKeys(_)
SortKeys(S) ==
    IF S = {} THEN <<>>
    ELSE LET m == CHOOSE x \in S : \A y \in S \ {x} : KeyLess(x, y)
         IN  <<m>> \o SortKeys(S \ {m})

(***************************************************************************)
(* pandas operations used by load_dfs                                      *)
(***************************************************************************)
Proj(k, P) == [i \in 1..Len(P) |-> k[P[i]]]

\* s.groupby(levels P).sum()
GroupSum(s, P) ==
    [g \in {Proj(k, P) : k \in DOMAIN s} |->
        SumFn(s, {k \in DOMAIN s : Proj(k, P) = g})]

\* frame.loc[cs] on the first index level: KeyError when a label is absent
LocFails(s, cs) == \E i \in 1..Len(cs) : ~ \E k \in DOMAIN s : k[1] = cs[i]

Loc(s, cs) == [k \in {q \in DOMAIN s : q[1] \in Range(cs)} |-> s[k]]

\* s.unstack(level=c, fill_value=0): index levels P stay, level c becomes
\* the columns; the result's rows are sorted by key.
Unstack(s, P, c) ==
    LET idx == {Proj(k, P) : k \in DOMAIN s}
        cols == {k[c] : k \in DOMAIN s}
        sorted == SortKeys(idx)
        cell(g, col) ==
            IF \E k \in DOMAIN s : Proj(k, P) = g /\ k[c] = col
            THEN s[CHOOSE k \in DOMAIN s : Proj(k, P) = g /\ k[c] = col]
            ELSE 0
    IN  [nlevels |-> Len(P),
         rows |-> [i \in 1..Len(sorted) |->
                     [key |-> sorted[i],
                      cells |-> [col \in cols |-> cell(sorted[i], col)]]],
         cols |-> cols]

\* df.rename(index=rename_dict): the mapping is applied to the labels of
\* every index level; rows keep their order and their cells.
RenameLabel(l) == IF l \in DOMAIN rename_dict THEN rename_dict[l] ELSE l

Rename(t) ==
    [t EXCEPT !.rows =
        [i \in DOMAIN t.rows |->
            [t.rows[i] EXCEPT !.key =
                [j \in DOMAIN t.rows[i].key |-> RenameLabel(t.rows[i].key[j])]]]]

(***************************************************************************)
(* load_dfs: emissions                                                     *)
(***************************************************************************)
\* groupby(['Country','Scenario','Year']).sum(), keyed (Country, Scenario,
\* Year, Mat)
EySum(rows) ==
    LET keys == {<<rows[i].Country, rows[i].Scenario, rows[i].Year>> :
                    i \in DOMAIN rows}
    IN  [k \in {Append(g, m) : g \in keys, m \in Mats} |->
            SumFn([i \in DOMAIN rows |-> rows[i][k[4]]],
                  {i \in DOMAIN rows :
                      <<rows[i].Country, rows[i].Scenario, rows[i].Year>>
                          = <<k[1], k[2], k[3]>>})]

\* variant: .last() in place of .first()
EtLast(rows) ==
    LET keyOf(i) == <<rows[i].Country, rows[i].Scenario, rows[i].Year,
                      rows[i].tech>>
        keys == {keyOf(i) : i \in DOMAIN rows}
        last(g) == CHOOSE i \in DOMAIN rows :
                       /\ keyOf(i) = g
                       /\ \A j \in DOMAIN rows : keyOf(j) = g => j <= i
    IN  [k \in {Append(g, m) : g \in keys, m \in Mats} |->
            rows[last(<<k[1], k[2], k[3], k[4]>>)][k[5]]]

\* groupby(['Country','Scenario','Year','Tech']).first(), keyed (Country,
\* Scenario, Year, Tech, Mat)
EtFirst(rows) ==
    LET keyOf(i) == <<rows[i].Country, rows[i].Scenario, rows[i].Year,
                      rows[i].tech>>
        keys == {keyOf(i) : i \in DOMAIN rows}
        first(g) == CHOOSE i \in DOMAIN rows :
                        /\ keyOf(i) = g
                        /\ \A j \in DOMAIN rows : keyOf(j) = g => i <= j
    IN  [k \in {Append(g, m) : g \in keys, m \in Mats} |->
            rows[first(<<k[1], k[2], k[3], k[4]>>)][k[5]]]

df_ey(rows) == Unstack(Loc(EySum(rows), countries), <<1, 2, 4>>, 3)

\* variant: emissions_mat summed over every raw row
df_em_all_rows(rows) ==
    Unstack(GroupSum(Loc(EySum(rows), countries), <<1, 2, 4>>), <<1, 2>>, 3)

df_em(rows) ==
    Unstack(GroupSum(Loc(EtFirst(rows), countries), <<1, 2, 5>>), <<1, 2>>, 3)

df_et(rows) ==
    Unstack(GroupSum(Loc(EtFirst(rows), countries), <<1, 2, 4, 5>>),
            <<1, 2, 4>>, 3)

(***************************************************************************)
(* load_dfs: employment                                                    *)
(***************************************************************************)
PGC == "Power Generation Capacity (Aggregate)"

\* drop(columns=['Country','ISO3']).rename(columns=...)
JobsColumns(rows) ==
    [i \in DOMAIN rows |->
        [Country |-> rows[i].country, Scenario |-> rows[i].scenario,
         Year |-> rows[i].Year, Tech |-> rows[i].tech,
         parameter |-> rows[i].parameter, Indicator |-> rows[i].Indicator,
         value |-> rows[i].value]]

\* variant: the "Capacity" Indicator filter is missing
JobsFilter_parameter_only(rows) == SelectSeq(rows, LAMBDA r : r.parameter = PGC)

\* the two row filters
JobsFilter(rows) ==
    SelectSeq(SelectSeq(rows, LAMBDA r : r.parameter = PGC),
              LAMBDA r : r.Indicator # "Capacity")

\* groupby(['Country','Scenario','Year','Tech','Indicator']).first(), then
\* stack().droplevel(-1): a series keyed by the five group labels
JobsFirst(rows) ==
    LET keyOf(i) == <<rows[i].Country, rows[i].Scenario, rows[i].Year,
                      rows[i].Tech, rows[i].Indicator>>
        first(g) == CHOOSE i \in DOMAIN rows :
                        /\ keyOf(i) = g
                        /\ \A j \in DOMAIN rows : keyOf(j) = g => i <= j
    IN  [g \in {keyOf(i) : i \in DOMAIN rows} |-> rows[first(g)].value]

df_j_all(rows) == JobsFirst(JobsFilter(JobsColumns(rows)))

df_j(rows) == Loc(df_j_all(rows), countries_alt)

df_jyf(rows) == Unstack(df_j(rows), <<1, 2, 4, 5>>, 3)

df_jy(rows) == Unstack(GroupSum(df_j(rows), <<1, 2, 3, 4>>), <<1, 2, 4>>, 3)

df_jt(rows) == Unstack(GroupSum(df_j(rows), <<1, 2, 5, 4>>), <<1, 2, 3>>, 4)

df_ji(rows) == Unstack(GroupSum(df_j(rows), <<1, 2, 5>>), <<1, 2>>, 3)

(***************************************************************************)
(* load_dfs                                                                *)
(***************************************************************************)
Names == {"emissions_year", "emissions_tech", "emissions_mat", "jobs_year",
          "jobs_year_full", "jobs_tech", "jobs_ind"}

EmissionNames == {"emissions_year", "emissions_tech", "emissions_mat"}

JobNames == Names \ EmissionNames

\* one entry of the res mapping before the renaming loop
res_entry(name, e, j) ==
    CASE name = "emissions_year" -> df_ey(e)
      [] name = "emissions_tech" -> df_et(e)
      [] name = "emissions_mat" -> df_em(e)
      [] name = "jobs_year" -> df_jy(j)
      [] name = "jobs_year_full" -> df_jyf(j)
      [] name = "jobs_tech" -> df_jt(j)
      [] name = "jobs_ind" -> df_ji(j)

res(e, j) == [name \in Names |-> res_entry(name, e, j)]

load_dfs_raises(e, j) ==
    \/ LocFails(EySum(e), countries)
    \/ LocFails(EtFirst(e), countries)
    \/ LocFails(df_j_all(j), countries_alt)

load_dfs(e, j) == [name \in Names |-> Rename(res(e, j)[name])]

(***************************************************************************)
(* df_to_dict                                                              *)
(***************************************************************************)
IsMultiIndex(t) == t.nlevels > 1

Level0(t) == {t.rows[i].key[1] : i \in DOMAIN t.rows}

\* variant: the group is not restricted to the rows of its label
GroupDropLevel_all_rows(t, name) ==
    [nlevels |-> t.nlevels - 1,
     rows |-> [i \in DOMAIN t.rows |->
                 [key |-> Tail(t.rows[i].key), cells |-> t.rows[i].cells]],
     cols |-> t.cols]

\* one group of df.groupby(level=0), with g.droplevel(0) applied
GroupDropLevel(t, name) ==
    LET sel == SelectSeq(t.rows, LAMBDA r : r.key[1] = name)
    IN  [nlevels |-> t.nlevels - 1,
         rows |-> [i \in DOMAIN sel |->
                     [key |-> Tail(sel[i].key), cells |-> sel[i].cells]],
         cols |-> t.cols]

\* variant: .all(1) in place of .any(1)
DropZeroRows_all(t) ==
    [t EXCEPT !.rows =
        SelectSeq(t.rows, LAMBDA r : \A c \in t.cols : r.cells[c] # 0)]

\* df.loc[(df != 0).any(1)]
DropZeroRows(t) ==
    [t EXCEPT !.rows =
        SelectSeq(t.rows, LAMBDA r : \E c \in t.cols : r.cells[c] # 0)]

\* variant: .all(axis=0) in place of .any(axis=0)
DropZeroCols_all(t) ==
    LET keep == {c \in t.cols : \A i \in DOMAIN t.rows : t.rows[i].cells[c] # 0}
    IN  [nlevels |-> t.nlevels,
         rows |-> [i \in DOMAIN t.rows |->
                     [key |-> t.rows[i].key,
                      cells |-> [c \in keep |-> t.rows[i].cells[c]]]],
         cols |-> keep]

\* df.loc[:, (df != 0).any(axis=0)]
DropZeroCols(t) ==
    LET keep == {c \in t.cols : \E i \in DOMAIN t.rows : t.rows[i].cells[c] # 0}
    IN  [nlevels |-> t.nlevels,
         rows |-> [i \in DOMAIN t.rows |->
                     [key |-> t.rows[i].key,
                      cells |-> [c \in keep |-> t.rows[i].cells[c]]]],
         cols |-> keep]

DropZeros(t) == DropZeroCols(DropZeroRows(t))

Leaf(t, drop) == IF drop THEN DropZeros(t) ELSE t

\* df.to_dict('index') raises ValueError on a non-unique index
to_dict_raises(t) ==
    \E i, j \in DOMAIN t.rows : i # j /\ t.rows[i].key = t.rows[j].key

to_dict(t) ==
    [l \in {t.rows[i].key[1] : i \in DOMAIN t.rows} |->
        t.rows[CHOOSE i \in DOMAIN t.rows : t.rows[i].key[1] = l].cells]

RECURSIVE df_to_dict_raises(_, _)
df_to_dict_raises(t, drop) ==
    IF IsMultiIndex(t)
    THEN \E name \in Level0(t) : df_to_dict_raises(GroupDropLevel(t, name), TRUE)
    ELSE to_dict_raises(Leaf(t, drop))

RECURSIVE df_to_dict(_, _)
df_to_dict(t, drop) ==
    IF IsMultiIndex(t)
    THEN [name \in Level0(t) |-> df_to_dict(GroupDropLevel(t, name), TRUE)]
    ELSE to_dict(Leaf(t, drop))

(***************************************************************************)
(* Template rendering                                                      *)
(***************************************************************************)
\* The templates of the model: one expression each, a variable name
\* followed by subscripts.
Templates ==
    {<<"emissions_mat", "Kenya", "Base">>,
     <<"emissions_mat", "Kenya", "Base", "Steel">>}

\* Jinja's subscript chain on a nested mapping of the given depth: a missing
\* key gives Undefined, a subscript of Undefined raises UndefinedError.
RECURSIVE Subscript(_, _, _)
Subscript(d, depth, path) ==
    IF path = <<>>
    THEN IF depth = 0 THEN [kind |-> "number", val |-> d]
         ELSE [kind |-> "mapping", val |-> d]
    ELSE IF depth > 0 /\ Head(path) \in DOMAIN d
         THEN Subscript(d[Head(path)], depth - 1, Tail(path))
         ELSE IF Len(path) = 1 THEN [kind |-> "undefined", val |-> 0]
              ELSE [kind |-> "error", val |-> 0]

Render(t, context, tables) ==
    Subscript(context[t[1]], tables[t[1]].nlevels + 1, Tail(t))

(***************************************************************************)
(* Inputs                                                                  *)
(***************************************************************************)
ERow(c, s, y, t, steel, cement) ==
    [Country |-> c, Scenario |-> s, Year |-> y, tech |-> t,
     Steel |-> steel, Cement |-> cement]

EmisBase ==
    <<ERow("KE", "Base", 2020, "Wind", 0, 0),
      ERow("RW", "Base", 2020, "Wind", 2, 1),
      ERow("UG", "Base", 2020, "Solar", 0, 4),
      ERow("UK", "Base", 2021, "Wind", 1, 0),
      ERow("ZM", "Base", 2020, "Wind", 3, 0),
      ERow("DE", "Base", 2020, "Wind", 7, 7)>>

EmisExtra ==
    {ERow("KE", s, y, "Solar", v[1], v[2]) :
        s \in {"Base", "KE", "Kenya"}, y \in {2020, 2021},
        v \in {<<0, 0>>, <<5, 3>>}}

JRow(c, y, p, ind, v) ==
    [Country |-> "n/a", ISO3 |-> "n/a", country |-> c, scenario |-> "Base",
     Year |-> y, tech |-> "Solar", parameter |-> p, Indicator |-> ind,
     value |-> v]

JobsBase ==
    <<JRow("KE", 2020, PGC, "Direct", 1),
      JRow("RW", 2020, PGC, "Direct", 0),
      JRow("UG", 2020, PGC, "Indirect", 2),
      JRow("ZM", 2021, PGC, "Direct", 1)>>

JobsExtra ==
    {JRow("KE", y, p, ind, 2) :
        y \in {2020, 2021}, p \in {PGC, "Other"},
        ind \in {"Capacity", "Direct"}}

Without(rows, c) == SelectSeq(rows, LAMBDA r : r.Country # c)

WithoutJ(rows, c) == SelectSeq(rows, LAMBDA r : r.country # c)

\* The CSV pairs the model runs on: extra rows in one file, or one country
\* missing from (or, for UK, added to) one file.
Inputs ==
    {<<EmisBase \o x, JobsBase>> : x \in SeqsUpTo(EmisExtra, MaxExtra)}
    \cup {<<EmisBase, x \o JobsBase>> : x \in SeqsUpTo(JobsExtra, MaxExtra)}
    \cup {<<Without(EmisBase, c), JobsBase>> : c \in Range(countries)}
    \cup {<<EmisBase, WithoutJ(JobsBase, c)>> : c \in Range(countries_alt)}
    \cup {<<EmisBase, JobsBase \o <<JRow("UK", 2020, PGC, "Direct", 2)>> >>}

OldFile == [state |-> "old", text |-> [kind |-> "none", val |-> 0]]

(***************************************************************************)
(* main                                                                    *)
(***************************************************************************)
dictVars == <<df, drop_full_zeros, result, once, twice>>

Init ==
    /\ pc = "start"
    /\ \E in \in Inputs : emis = in[1] /\ jobs = in[2]
    /\ preserve_zeros \in BOOLEAN
    /\ template = <<>>
    /\ dfs = [name \in Names |-> NoTable]
    /\ ctx = [name \in Names |-> <<>>]
    /\ outfile = OldFile
    /\ df = NoTable
    /\ drop_full_zeros = TRUE
    /\ result = <<>>
    /\ once = NoTable
    /\ twice = NoTable

\* env.get_template: the template file is read and compiled
GetTemplate ==
    /\ pc = "start"
    /\ \E t \in Templates : template' = t
    /\ pc' = "load"
    /\ UNCHANGED <<emis, jobs, preserve_zeros, dfs, ctx, outfile>>
    /\ UNCHANGED dictVars

\* env.get_template raises (file missing, syntax error)
GetTemplateFails ==
    /\ pc = "start"
    /\ pc' = "failed_template"
    /\ UNCHANGED <<emis, jobs, preserve_zeros, template, dfs, ctx, outfile>>
    /\ UNCHANGED dictVars

LoadDfs ==
    /\ pc = "load"
    /\ ~ load_dfs_raises(emis, jobs)
    /\ dfs' = load_dfs(emis, jobs)
    /\ pc' = "serialize"
    /\ UNCHANGED <<emis, jobs, preserve_zeros, template, ctx, outfile>>
    /\ UNCHANGED dictVars

\* the KeyError of .loc[countries] / .loc[countries_alt]
LoadDfsKeyError ==
    /\ pc = "load"
    /\ load_dfs_raises(emis, jobs)
    /\ pc' = "failed_lookup"
    /\ UNCHANGED <<emis, jobs, preserve_zeros, template, dfs, ctx, outfile>>
    /\ UNCHANGED dictVars

\* pd.read_csv raises (file missing or malformed)
ReadCsvFails ==
    /\ pc = "load"
    /\ pc' = "failed_read"
    /\ UNCHANGED <<emis, jobs, preserve_zeros, template, dfs, ctx, outfile>>
    /\ UNCHANGED dictVars

\* template.stream(**{name: df_to_dict(df, not preserve_zeros) ...})
Serialize ==
    /\ pc = "serialize"
    /\ \A name \in Names : ~ df_to_dict_raises(dfs[name], ~ preserve_zeros)
    /\ ctx' = [name \in Names |-> df_to_dict(dfs[name], ~ preserve_zeros)]
    /\ pc' = "open"
    /\ UNCHANGED <<emis, jobs, preserve_zeros, template, dfs, outfile>>
    /\ UNCHANGED dictVars

\* variant: the output file is opened before the dictionaries are built
SerializeFails_file_open ==
    /\ pc = "serialize"
    /\ \E name \in Names : df_to_dict_raises(dfs[name], ~ preserve_zeros)
    /\ pc' = "failed_serialize"
    /\ outfile' = [state |-> "truncated", text |-> [kind |-> "none", val |-> 0]]
    /\ UNCHANGED <<emis, jobs, preserve_zeros, template, dfs, ctx>>
    /\ UNCHANGED dictVars

SerializeFails ==
    /\ pc = "serialize"
    /\ \E name \in Names : df_to_dict_raises(dfs[name], ~ preserve_zeros)
    /\ pc' = "failed_serialize"
    /\ UNCHANGED <<emis, jobs, preserve_zeros, template, dfs, ctx, outfile>>
    /\ UNCHANGED dictVars

\* output_file.open('w'): the file is truncated
OpenOutput ==
    /\ pc = "open"
    /\ outfile' = [state |-> "truncated", text |-> [kind |-> "none", val |-> 0]]
    /\ pc' = "dump"
    /\ UNCHANGED <<emis, jobs, preserve_zeros, template, dfs, ctx>>
    /\ UNCHANGED dictVars

\* output_file.open('w') raises (path not writable)
OpenOutputFails ==
    /\ pc = "open"
    /\ pc' = "failed_open"
    /\ UNCHANGED <<emis, jobs, preserve_zeros, template, dfs, ctx, outfile>>
    /\ UNCHANGED dictVars

\* stream.dump(file): the template is rendered into the open file
Dump ==
    /\ pc = "dump"
    /\ Render(template, ctx, dfs).kind # "error"
    /\ outfile' = [state |-> "written", text |-> Render(template, ctx, dfs)]
    /\ pc' = "done"
    /\ UNCHANGED <<emis, jobs, preserve_zeros, template, dfs, ctx>>
    /\ UNCHANGED dictVars

\* rendering raises UndefinedError while the file is open
DumpFails ==
    /\ pc = "dump"
    /\ Render(template, ctx, dfs).kind = "error"
    /\ pc' = "failed_dump"
    /\ UNCHANGED <<emis, jobs, preserve_zeros, template, dfs, ctx, outfile>>
    /\ UNCHANGED dictVars

Next ==
    \/ GetTemplate
    \/ GetTemplateFails
    \/ LoadDfs
    \/ LoadDfsKeyError
    \/ ReadCsvFails
    \/ Serialize
    \/ SerializeFails
    \/ OpenOutput
    \/ OpenOutputFails
    \/ Dump
    \/ DumpFails

Spec == Init /\ [][Next]_vars

TypeOK ==
    pc \in {"start", "load", "serialize", "open", "dump", "done",
            "failed_template", "failed_lookup", "failed_read",
            "failed_serialize", "failed_open", "failed_dump",
            "dict_start", "dict_done", "dict_failed", "filtered",
            "refiltered"}

(***************************************************************************)
(* df_to_dict on its own: tables of one or two index levels, rows in any   *)
(* order, labels possibly repeated                                         *)
(***************************************************************************)
DictCols == {2020, 2021}

DictKeys ==
    {<<"Cement">>, <<"Steel">>}
    \cup {<<c, m>> : c \in {"Kenya", "Rwanda"}, m \in {"Cement", "Steel"}}

DictRows == [key : DictKeys, cells : [DictCols -> (0 - 1)..MaxCell]]

TablesOf(n) ==
    {[nlevels |-> n, rows |-> r, cols |-> DictCols] :
        r \in SeqsUpTo({w \in DictRows : Len(w.key) = n}, MaxRows)}

TableInputs == TablesOf(1) \cup TablesOf(2)

mainVars == <<emis, jobs, preserve_zeros, template, dfs, ctx, outfile>>

InitDict ==
    /\ pc = "dict_start"
    /\ df \in TableInputs
    /\ drop_full_zeros \in BOOLEAN
    /\ result = <<>>
    /\ once = NoTable
    /\ twice = NoTable
    /\ emis = <<>>
    /\ jobs = <<>>
    /\ preserve_zeros = FALSE
    /\ template = <<>>
    /\ dfs = [name \in Names |-> NoTable]
    /\ ctx = [name \in Names |-> <<>>]
    /\ outfile = OldFile

CallDfToDict ==
    /\ pc = "dict_start"
    /\ ~ df_to_dict_raises(df, drop_full_zeros)
    /\ result' = df_to_dict(df, drop_full_zeros)
    /\ pc' = "dict_done"
    /\ UNCHANGED <<df, drop_full_zeros, once, twice>>
    /\ UNCHANGED mainVars

CallDfToDictRaises ==
    /\ pc = "dict_start"
    /\ df_to_dict_raises(df, drop_full_zeros)
    /\ pc' = "dict_failed"
    /\ UNCHANGED <<df, drop_full_zeros, result, once, twice>>
    /\ UNCHANGED mainVars

\* the leaf-level zero filter applied to a single-level table
FilterOnce ==
    /\ pc = "dict_start"
    /\ ~ IsMultiIndex(df)
    /\ once' = DropZeros(df)
    /\ pc' = "filtered"
    /\ UNCHANGED <<df, drop_full_zeros, result, twice>>
    /\ UNCHANGED mainVars

\* the filter applied again to its own result
FilterAgain ==
    /\ pc = "filtered"
    /\ twice' = DropZeros(once)
    /\ pc' = "refiltered"
    /\ UNCHANGED <<df, drop_full_zeros, result, once>>
    /\ UNCHANGED mainVars

NextDict ==
    \/ CallDfToDict
    \/ CallDfToDictRaises
    \/ FilterOnce
    \/ FilterAgain

SpecDict == InitDict /\ [][NextDict]_vars

(***************************************************************************)
(* Properties                                                              *)
(***************************************************************************)
AfterLoad ==
    pc \in {"serialize", "open", "dump", "done", "failed_serialize",
            "failed_open", "failed_dump"}

CtxBuilt == pc \in {"open", "dump", "done", "failed_open", "failed_dump"}

RECURSIVE HasPath(_, _)
HasPath(d, key) ==
    \/ key = <<>>
    \/ Head(key) \in DOMAIN d /\ HasPath(d[Head(key)], Tail(key))

RECURSIVE At(_, _)
At(d, key) == IF key = <<>> THEN d ELSE At(d[Head(key)], Tail(key))

\* the distinct Country labels of a table, in row order
RECURSIVE CountryLevel(_)
CountryLevel(rows) ==
    IF rows = <<>> THEN <<>>
    ELSE LET rest == CountryLevel(Tail(rows))
             c == Head(rows).key[1]
         IN  <<c>> \o SelectSeq(rest, LAMBDA x : x # c)

FiveNames == <<"Kenya", "Rwanda", "Uganda", "United Kingdom", "Zambia">>

FourNames == <<"Kenya", "Rwanda", "Uganda", "Zambia">>

ExampleEmis ==
    EmisBase \o <<ERow("KE", "Base", 2020, "Solar", 5, 3),
                  ERow("KE", "Base", 2021, "Solar", 0, 0)>>

\* C1: with preserve_zeros set, every row label and every column label of
\* each of the seven tables is present in the nested dictionary bound to the
\* template, all-zero rows and columns included; for the example rows
\* (KE, Base, Steel 5 in 2020 and 0 in 2021) emissions_year Kenya/Base/Steel
\* is {2020: 5} with zero-dropping and {2020: 5, 2021: 0} with preserve_zeros.
C1_PreserveZerosKeepsAllLabels ==
    CtxBuilt =>
        /\ preserve_zeros =>
              \A name \in Names : \A i \in DOMAIN dfs[name].rows :
                  /\ HasPath(ctx[name], dfs[name].rows[i].key)
                  /\ DOMAIN At(ctx[name], dfs[name].rows[i].key) = dfs[name].cols
        /\ emis = ExampleEmis =>
              /\ HasPath(ctx["emissions_year"], <<"Kenya", "Base", "Steel">>)
              /\ ctx["emissions_year"]["Kenya"]["Base"]["Steel"] =
                    IF preserve_zeros
                    THEN [y \in {2020, 2021} |-> IF y = 2020 THEN 5 ELSE 0]
                    ELSE [y \in {2020} |-> 5]

\* C4 as stated: all five countries, renamed and in configured order, form
\* the Country level of every one of the seven tables load_dfs returns.
C4_FiveCountriesInEveryTable ==
    AfterLoad =>
        \A name \in Names : CountryLevel(dfs[name].rows) = FiveNames

\* C4 amended: the Country level of the three emissions tables is the five
\* configured countries and that of the four jobs tables is the four non-UK
\* countries, renamed and in configured order; load_dfs returns only if all
\* five occur in the emissions rows and the four non-UK ones occur in the
\* jobs rows that pass the parameter and Indicator filters.
C4_CountriesPerTable ==
    AfterLoad =>
        /\ \A name \in EmissionNames :
              CountryLevel(dfs[name].rows) = FiveNames
        /\ \A name \in JobNames :
              CountryLevel(dfs[name].rows) = FourNames
        /\ \A c \in Range(countries) :
              \E i \in DOMAIN emis : emis[i].Country = c
        /\ \A c \in Range(countries) \ {"UK"} :
              \E i \in DOMAIN jobs :
                  /\ jobs[i].country = c
                  /\ jobs[i].parameter = PGC
                  /\ jobs[i].Indicator # "Capacity"

C4_Witness ==
    /\ AfterLoad
    /\ \E i \in DOMAIN jobs : jobs[i].country = "UK"
    /\ \E i \in DOMAIN emis : emis[i].Country = "DE"

\* C4, failure half: when a configured country is missing from the
\* emissions rows, or a non-UK one from the retained jobs rows, the run
\* never gets past load_dfs.
C4_WitnessFailure == pc = "failed_lookup"

\* the jobs input without the rows the two filters reject
KeptJobs(rows) ==
    SelectSeq(rows, LAMBDA r : r.parameter = PGC /\ r.Indicator # "Capacity")

\* C5: rows whose Indicator is "Capacity" or whose parameter is not the
\* aggregate power generation capacity contribute to no jobs table: the four
\* jobs tables (and whether load_dfs fails) are those of the input with all
\* such rows removed.
C5_FilteredRowsContributeNothing ==
    /\ pc \in {"load", "serialize", "failed_lookup"} =>
          load_dfs_raises(emis, jobs) = load_dfs_raises(emis, KeptJobs(jobs))
    /\ AfterLoad =>
          \A name \in JobNames :
              dfs[name] = Rename(res_entry(name, emis, KeptJobs(jobs)))

C5_Witness ==
    /\ AfterLoad
    /\ \E i \in DOMAIN jobs :
          /\ jobs[i].parameter = PGC
          /\ jobs[i].Indicator = "Capacity"
          /\ jobs[i].value # 0
    /\ \E i \in DOMAIN jobs : jobs[i].parameter # PGC /\ jobs[i].value # 0

\* C6: the renaming is a pure relabeling of each of the seven tables: same
\* number of rows, same columns, same cells, only labels equal to a country
\* code change, and two distinct rows never end up with the same label tuple.
C6_RenameIsPureRelabeling ==
    AfterLoad =>
        \A name \in Names :
            LET before == res_entry(name, emis, jobs)
                after == dfs[name]
            IN  /\ Len(after.rows) = Len(before.rows)
                /\ after.cols = before.cols
                /\ \A i \in DOMAIN after.rows :
                      /\ after.rows[i].cells = before.rows[i].cells
                      /\ \A j \in DOMAIN after.rows[i].key :
                            after.rows[i].key[j] # before.rows[i].key[j]
                                => before.rows[i].key[j] \in Range(countries)
                /\ \A i, j \in DOMAIN after.rows :
                      before.rows[i].key # before.rows[j].key
                          => after.rows[i].key # after.rows[j].key

\* C10: the output file is opened, and so truncated, only after the
\* template is loaded, load_dfs has returned and the seven dictionaries are
\* built; a failure of template loading, CSV reading, the country lookup or
\* serialization leaves the file's content as it was.
C10_OutputUntouchedUntilSerialized ==
    /\ pc \in {"start", "load", "serialize", "open", "failed_template",
               "failed_read", "failed_lookup", "failed_serialize"}
          => outfile = OldFile
    /\ outfile # OldFile =>
          /\ template \in Templates
          /\ \A name \in Names : dfs[name] # NoTable /\ ctx[name] # <<>>

C10_Witness == pc = "failed_serialize" /\ outfile = OldFile

C10_WitnessOpened == pc = "dump" /\ outfile.state = "truncated"

(***************************************************************************)
(* Totals computed from the raw emissions rows                             *)
(***************************************************************************)
Key4(r) == <<r.Country, r.Scenario, r.Year, r.tech>>

IsFirst(i) == \A j \in 1..(i - 1) : Key4(emis[j]) # Key4(emis[i])

UniqueKeys ==
    \A i, j \in DOMAIN emis : i # j => Key4(emis[i]) # Key4(emis[j])

\* the raw rows of a configured country whose renamed (Country, Scenario) is K
RawRows(K) ==
    {i \in DOMAIN emis :
        /\ emis[i].Country \in Range(countries)
        /\ <<RenameLabel(emis[i].Country), RenameLabel(emis[i].Scenario)>> = K}

RawAll(K, m) == SumFn([i \in DOMAIN emis |-> emis[i][m]], RawRows(K))

RawFirst(K, m) ==
    SumFn([i \in DOMAIN emis |-> emis[i][m]], {i \in RawRows(K) : IsFirst(i)})

RowTotal(row) == SumFn(row.cells, DOMAIN row.cells)

\* the sum of all cells of the rows of t labelled key
TableTotal(t, key) ==
    SumFn([i \in DOMAIN t.rows |-> RowTotal(t.rows[i])],
          {i \in DOMAIN t.rows : t.rows[i].key = key})

ColTotal(t, key, c) ==
    SumFn([i \in DOMAIN t.rows |-> t.rows[i].cells[c]],
          {i \in DOMAIN t.rows : t.rows[i].key = key})

TableKeys(t) == {t.rows[i].key : i \in DOMAIN t.rows}

MatBase == <<"emissions_mat", "Kenya", "Base">>

\* C7 as stated: rendering {{ emissions_mat['Kenya']['Base'] }} produces a
\* number, the sum over all years for Kenya/Base.
C7_MatEntryIsNumber ==
    (pc = "done" /\ template = MatBase) =>
        /\ outfile.text.kind = "number"
        /\ outfile.text.val =
              RawFirst(<<"Kenya", "Base">>, "Steel")
                  + RawFirst(<<"Kenya", "Base">>, "Cement")

\* C7 amended: emissions_mat['Kenya']['Base'] is a mapping from material to
\* the sum over all years and techs (first row per Country, Scenario, Year,
\* Tech key) for Kenya/Base, holding the materials with a non-zero total in
\* some Kenya scenario; it is absent when all of Kenya/Base's totals are
\* zero.  Rendering the expression succeeds and produces that mapping, or
\* nothing when the entry is absent.
C7_MatEntryIsMaterialMapping ==
    LET K == <<"Kenya", "Base">>
        kept == {m \in Mats :
                    \E i \in DOMAIN emis :
                        /\ emis[i].Country = "KE"
                        /\ RawFirst(<<"Kenya", RenameLabel(emis[i].Scenario)>>, m) # 0}
        entry == [m \in kept |-> RawFirst(K, m)]
        nonzero == \E m \in Mats : RawFirst(K, m) # 0
    IN  /\ CtxBuilt =>
              IF nonzero
              THEN /\ HasPath(ctx["emissions_mat"], K)
                   /\ ctx["emissions_mat"]["Kenya"]["Base"] = entry
              ELSE ~ HasPath(ctx["emissions_mat"], K)
        /\ (pc = "dump" /\ template = MatBase) =>
              Render(template, ctx, dfs).kind # "error"
        /\ (pc = "done" /\ template = MatBase) =>
              IF nonzero
              THEN outfile.text = [kind |-> "mapping", val |-> entry]
              ELSE outfile.text.kind = "undefined"

C7_Witness ==
    /\ pc = "done"
    /\ template = MatBase
    /\ outfile.text.kind = "mapping"
    /\ \E i, j \in DOMAIN emis :
          /\ emis[i].Country = "KE" /\ emis[j].Country = "KE"
          /\ emis[i].Scenario = "Base" /\ emis[j].Scenario = "Base"
          /\ emis[i].Year = 2020 /\ emis[j].Year = 2021
          /\ emis[i].Steel # 0 /\ emis[j].Steel # 0

\* C9: emissions_mat and emissions_tech count only the first raw row of each
\* (Country, Scenario, Year, Tech) key, emissions_year counts every row; so
\* for every country, scenario and material the emissions_tech cells summed
\* over techs equal the emissions_mat cell, and when all keys are unique the
\* emissions_year cells summed over years equal it too.
C9_FirstVersusSum ==
    AfterLoad =>
        LET ey == dfs["emissions_year"]
            et == dfs["emissions_tech"]
            em == dfs["emissions_mat"]
        IN  /\ {SubSeq(k, 1, 2) : k \in TableKeys(ey)} = TableKeys(em)
            /\ {SubSeq(k, 1, 2) : k \in TableKeys(et)} = TableKeys(em)
            /\ \A K \in TableKeys(em) : \A m \in Mats :
                  /\ TableTotal(ey, Append(K, m)) = RawAll(K, m)
                  /\ ColTotal(em, K, m) = RawFirst(K, m)
                  /\ TableTotal(et, Append(K, m)) = ColTotal(em, K, m)
                  /\ UniqueKeys =>
                        TableTotal(ey, Append(K, m)) = ColTotal(em, K, m)

C9_Witness ==
    /\ AfterLoad
    /\ ~ UniqueKeys
    /\ TableTotal(dfs["emissions_year"], <<"Kenya", "Base", "Steel">>)
          # ColTotal(dfs["emissions_mat"], <<"Kenya", "Base">>, "Steel")

(***************************************************************************)
(* Properties of df_to_dict                                                *)
(***************************************************************************)
\* the groups df_to_dict reaches its leaves through ("" for a table that is
\* a leaf itself)
LeafNames == IF IsMultiIndex(df) THEN Level0(df) ELSE {""}

LeafRows(name) ==
    {i \in DOMAIN df.rows : IsMultiIndex(df) => df.rows[i].key[1] = name}

LeafOut(name) == IF IsMultiIndex(df) THEN result[name] ELSE result

LastLabel(i) == df.rows[i].key[df.nlevels]

SurvCols(out) == UNION {DOMAIN out[l] : l \in DOMAIN out}

\* C2: with zero-dropping enabled, at every leaf of the result no surviving
\* row and no surviving column has only zero cells, and a row or column is
\* missing only if all its cells were 0.
C2_NoAllZeroLeafRowOrColumn ==
    (pc = "dict_done" /\ drop_full_zeros) =>
        \A name \in LeafNames :
            LET out == LeafOut(name)
            IN  /\ \A l \in DOMAIN out : \E c \in DOMAIN out[l] : out[l][c] # 0
                /\ \A c \in SurvCols(out) : \E l \in DOMAIN out : out[l][c] # 0
                /\ \A i \in LeafRows(name) :
                      LastLabel(i) \notin DOMAIN out
                          => \A c \in df.cols : df.rows[i].cells[c] = 0
                /\ \A c \in df.cols \ SurvCols(out) :
                      \A i \in LeafRows(name) : df.rows[i].cells[c] = 0

C2_Witness ==
    /\ pc = "dict_done"
    /\ drop_full_zeros
    /\ \E name \in LeafNames :
          /\ DOMAIN LeafOut(name) # {}
          /\ \E i \in LeafRows(name) : LastLabel(i) \notin DOMAIN LeafOut(name)
          /\ df.cols \ SurvCols(LeafOut(name)) # {}

\* C3: the leaf-level zero filter is idempotent: filtering the filtered
\* single-level table again gives the same rows, columns and cells.
C3_ZeroDropIdempotent == pc = "refiltered" => twice = once

C3_Witness ==
    /\ pc = "refiltered"
    /\ once.rows # <<>>
    /\ Len(once.rows) < Len(df.rows)
    /\ once.cols # df.cols

RECURSIVE Paths(_, _)
Paths(d, n) ==
    IF n = 0 THEN {<<>>}
    ELSE UNION {{<<k>> \o q : q \in Paths(d[k], n - 1)} : k \in DOMAIN d}

====
